---- MODULE Spec2Model ----
(***************************************************************************)
(* Model of src/src/graph_logic.py: the class Graph, which loads a         *)
(* weighted directed graph from a text file, runs Floyd-Warshall with      *)
(* lists of tying predecessors, detects and reconstructs a negative cycle  *)
(* and enumerates all shortest paths between two vertices.                 *)
(*                                                                         *)
(* Python lists are modelled as functions over 0..n-1 (the matrices) and   *)
(* as sequences (the predecessor lists, the paths).  A Python index may be *)
(* negative: lst[-1] is the last element, so indices are resolved by Ix.   *)
(***************************************************************************)
EXTENDS Integers, Sequences, FiniteSets, TLC

\* ---- bounds of the model ------------------------------------------------
MaxN == 3
MaxEdges == 4
MaxW == 1
MaxRuns == 2

\* float('inf'): larger than every finite distance the bounds allow
INF == 1000000

Weights == (0 - MaxW)..MaxW

VARIABLES
    pc,            \* "new" | "loading" | "loaded" | "failed" | "relaxing" | "closed"
    num_vertices,  \* self.num_vertices
    L,             \* self.L
    P,             \* self.P
    initial_adj,   \* self.initial_adj
    todo,          \* edge lines load_from_file's loop has still to read
    runs,          \* completed calls of floyd_warshall
    ret,           \* the last value returned by a query method
    G,             \* the input graph: weight of the last edge line u v w
    inRange,       \* every edge line read so far has 0 <= u, v < n
    step,          \* relaxations floyd_warshall has done, in the order k, i, j
    Lk,            \* L as it was when the current iteration of k began
    Pk             \* P as it was when the current iteration of k began

vars == <<pc, num_vertices, L, P, initial_adj, todo, runs, ret, G, inRange,
          step, Lk, Pk>>

Min(a, b) == IF a < b THEN a ELSE b

Max(a, b) == IF a < b THEN b ELSE a

\* ---- Python list indexing -----------------------------------------------
\* lst[u] raises IndexError unless -len <= u < len
InBounds(u, n) == (0 - n) <= u /\ u < n

\* the position lst[u] denotes
Ix(u, n) == IF u < 0 THEN u + n ELSE u

\* M[a][b] of an n x n matrix, with Python's negative indices
At(M, a, b, n) == M[Ix(a, n)][Ix(b, n)]

\* val in lst
Contains(lst, val) == \E x \in 1..Len(lst) : lst[x] = val

\* ---- the input file -----------------------------------------------------
\* What load_from_file finds: no file, no non-blank line, an unparseable
\* vertex count, a vertex count n without a parseable edge count, or n, the
\* declared edge count m and the number avail of lines after the 2 headers.
Headers ==
    [kind : {"missing", "empty", "bad_n"}, n : {0}, m : {0}, avail : {0}]
    \cup [kind : {"bad_m"}, n : 0..MaxN, m : {0}, avail : {0}]
    \cup [kind : {"ok"}, n : 0..MaxN, m : 0..MaxEdges, avail : 0..MaxEdges]

\* An edge line of a file that describes a graph on the vertices 0..n-1
GraphLines(n) == [parses : {TRUE}, u : 0..(n - 1), v : 0..(n - 1), w : Weights]

\* Any edge line: three integers u v w, with u and v possibly negative or
\* too large, or a line that does not parse (a token that is no integer, or
\* fewer than three tokens).
EdgeLines(n) ==
    [parses : {TRUE}, u : (0 - 1)..n, v : (0 - 1)..n, w : Weights]
    \cup [parses : {FALSE}, u : {0}, v : {0}, w : {0}]

NoRet == [op |-> "none", start |-> 0, end |-> 0, flag |-> FALSE,
          seq |-> <<>>, err |-> FALSE, depth |-> 0]

Init ==
    /\ pc = "new"
    /\ num_vertices = 0
    /\ L = <<>>
    /\ P = <<>>
    /\ initial_adj = <<>>
    /\ todo = 0
    /\ runs = 0
    /\ ret = NoRet
    /\ G = <<>>
    /\ inRange = TRUE
    /\ step = 0
    /\ Lk = <<>>
    /\ Pk = <<>>

\* ---- load_from_file -----------------------------------------------------
\* lines 64-71: the matrices before any edge
InitL(n) == [a \in 0..(n - 1) |-> [b \in 0..(n - 1) |-> IF a = b THEN 0 ELSE INF]]

InitP(n) == [a \in 0..(n - 1) |-> [b \in 0..(n - 1) |-> <<>>]]

\* the input graph with no edge at all
NoEdges(n) == [a \in 0..(n - 1) |-> [b \in 0..(n - 1) |-> INF]]

\* lines 44-71: the headers.  A failure before line 59 leaves the object as
\* constructed; a failure at line 60 comes after num_vertices was assigned.
LoadBegin ==
    /\ pc = "new"
    /\ \E h \in Headers :
        IF h.kind \in {"missing", "empty", "bad_n"}
        THEN /\ pc' = "failed"
             /\ UNCHANGED <<num_vertices, L, P, initial_adj, todo, G>>
        ELSE IF h.kind = "bad_m"
        THEN /\ pc' = "failed"
             /\ num_vertices' = h.n
             /\ UNCHANGED <<L, P, initial_adj, todo, G>>
        ELSE /\ num_vertices' = h.n
             /\ L' = InitL(h.n)
             /\ P' = InitP(h.n)
             /\ initial_adj' = InitL(h.n)
             /\ G' = NoEdges(h.n)
             /\ todo' = Min(h.m, h.avail)
             /\ pc' = IF Min(h.m, h.avail) = 0 THEN "loaded" ELSE "loading"
    /\ UNCHANGED <<runs, ret, inRange, step, Lk, Pk>>

\* lines 74-86: one iteration of the edge loop that finds a line, the line
\* being one of lines
LoadLine(lines) ==
    /\ pc = "loading"
    /\ todo > 0
    /\ \E e \in lines :
        LET n == num_vertices
            a == Ix(e.u, n)
            b == Ix(e.v, n)
        IN  IF ~e.parses
            THEN /\ pc' = "failed"
                 /\ UNCHANGED <<L, P, initial_adj, todo, G, inRange>>
            ELSE IF ~(InBounds(e.u, n) /\ InBounds(e.v, n))
            THEN /\ pc' = "failed"
                 /\ inRange' = FALSE
                 /\ UNCHANGED <<L, P, initial_adj, todo, G>>
            ELSE /\ L' = [L EXCEPT ![a][b] = e.w]
                 /\ initial_adj' = [initial_adj EXCEPT ![a][b] = e.w]
                 /\ P' = IF Contains(P[a][b], e.u)
                         THEN P
                         ELSE [P EXCEPT ![a][b] = Append(@, e.u)]
                 /\ inRange' = (inRange /\ e.u >= 0 /\ e.v >= 0)
                 /\ G' = IF e.u >= 0 /\ e.v >= 0
                         THEN [G EXCEPT ![e.u][e.v] = e.w]
                         ELSE G
                 /\ todo' = todo - 1
                 /\ pc' = IF todo = 1 THEN "loaded" ELSE "loading"
    /\ UNCHANGED <<num_vertices, runs, ret, step, Lk, Pk>>

\* ---- floyd_warshall -----------------------------------------------------
\* _add_unique without the test of line 164: every element is appended
add_unique_dup(target, source) == target \o source

\* _add_unique: append each element of source that target does not hold yet
RECURSIVE add_unique(_, _)
add_unique(target, source) ==
    IF source = <<>>
    THEN target
    ELSE add_unique(IF Contains(target, Head(source))
                    THEN target
                    ELSE Append(target, Head(source)),
                    Tail(source))

\* the relaxation that leaves the diagonal alone, as if a vertex were always
\* at distance 0 from itself
relax_skip_diagonal(Lc, Pc, k, i, j) ==
    IF i # j /\ Lc[i][k] # INF /\ Lc[k][j] # INF
    THEN LET new_dist == Lc[i][k] + Lc[k][j]
         IN  IF new_dist < Lc[i][j]
             THEN LET Pe == [Pc EXCEPT ![i][j] = <<>>]
                  IN  <<[Lc EXCEPT ![i][j] = new_dist],
                        [Pe EXCEPT ![i][j] = add_unique(Pe[i][j], Pe[k][j])]>>
             ELSE IF new_dist = Lc[i][j]
             THEN <<Lc, [Pc EXCEPT ![i][j] = add_unique(Pc[i][j], Pc[k][j])]>>
             ELSE <<Lc, Pc>>
    ELSE <<Lc, Pc>>

\* the relaxation without the branch of lines 112-114: a tie adds nothing
relax_no_tie(Lc, Pc, k, i, j) ==
    IF Lc[i][k] # INF /\ Lc[k][j] # INF
    THEN LET new_dist == Lc[i][k] + Lc[k][j]
         IN  IF new_dist < Lc[i][j]
             THEN LET Pe == [Pc EXCEPT ![i][j] = <<>>]
                  IN  <<[Lc EXCEPT ![i][j] = new_dist],
                        [Pe EXCEPT ![i][j] = add_unique(Pe[i][j], Pe[k][j])]>>
             ELSE <<Lc, Pc>>
    ELSE <<Lc, Pc>>

\* the relaxation that replaces the predecessors on an equal distance too,
\* as the test <= in place of < would
relax_replace_on_tie(Lc, Pc, k, i, j) ==
    IF Lc[i][k] # INF /\ Lc[k][j] # INF
    THEN LET new_dist == Lc[i][k] + Lc[k][j]
         IN  IF new_dist <= Lc[i][j]
             THEN LET Pe == [Pc EXCEPT ![i][j] = <<>>]
                  IN  <<[Lc EXCEPT ![i][j] = new_dist],
                        [Pe EXCEPT ![i][j] = add_unique(Pe[i][j], Pe[k][j])]>>
             ELSE <<Lc, Pc>>
    ELSE <<Lc, Pc>>

\* the relaxation that empties P[i][j] on a strictly better distance and
\* copies nothing into it
relax_no_copy(Lc, Pc, k, i, j) ==
    IF Lc[i][k] # INF /\ Lc[k][j] # INF
    THEN LET new_dist == Lc[i][k] + Lc[k][j]
         IN  IF new_dist < Lc[i][j]
             THEN <<[Lc EXCEPT ![i][j] = new_dist], [Pc EXCEPT ![i][j] = <<>>]>>
             ELSE IF new_dist = Lc[i][j]
                  THEN <<Lc, [Pc EXCEPT ![i][j] = add_unique(Pc[i][j], Pc[k][j])]>>
                  ELSE <<Lc, Pc>>
    ELSE <<Lc, Pc>>

\* the relaxation that takes the route through k whenever its cost differs,
\* as the test != in place of < would
relax_overwrite(Lc, Pc, k, i, j) ==
    IF Lc[i][k] # INF /\ Lc[k][j] # INF
    THEN LET new_dist == Lc[i][k] + Lc[k][j]
         IN  IF new_dist # Lc[i][j]
             THEN LET Pe == [Pc EXCEPT ![i][j] = <<>>]
                  IN  <<[Lc EXCEPT ![i][j] = new_dist],
                        [Pe EXCEPT ![i][j] = add_unique(Pe[i][j], Pe[k][j])]>>
             ELSE <<Lc, [Pc EXCEPT ![i][j] = add_unique(Pc[i][j], Pc[k][j])]>>
    ELSE <<Lc, Pc>>

\* lines 104-114: the relaxation of the pair (i, j) through k.  After line
\* 109 the cell P[i][j] is a fresh empty list; line 111 reads P[k][j] after
\* that assignment, so for i = k it reads the emptied cell.
relax(Lc, Pc, k, i, j) ==
    IF Lc[i][k] # INF /\ Lc[k][j] # INF
    THEN LET new_dist == Lc[i][k] + Lc[k][j]
         IN  IF new_dist < Lc[i][j]
             THEN LET Pe == [Pc EXCEPT ![i][j] = <<>>]
                  IN  <<[Lc EXCEPT ![i][j] = new_dist],
                        [Pe EXCEPT ![i][j] = add_unique(Pe[i][j], Pe[k][j])]>>
             ELSE IF new_dist = Lc[i][j]
             THEN <<Lc, [Pc EXCEPT ![i][j] = add_unique(Pc[i][j], Pc[k][j])]>>
             ELSE <<Lc, Pc>>
    ELSE <<Lc, Pc>>

\* line 102: the loop over j, from j on, for fixed k and i.  A step changes
\* the cell (i, j) only; testing it makes TLC evaluate each step before the
\* next one instead of nesting all of them.
RECURSIVE loop_j(_, _, _, _, _, _)
loop_j(Lc, Pc, n, k, i, j) ==
    IF j >= n
    THEN <<Lc, Pc>>
    ELSE LET r == relax(Lc, Pc, k, i, j)
         IN  IF r[1][i][j] = Lc[i][j] /\ r[2][i][j] = Pc[i][j]
             THEN loop_j(Lc, Pc, n, k, i, j + 1)
             ELSE loop_j(r[1], r[2], n, k, i, j + 1)

\* line 101: the loop over i, from i on, for fixed k
RECURSIVE loop_i(_, _, _, _, _)
loop_i(Lc, Pc, n, k, i) ==
    IF i >= n
    THEN <<Lc, Pc>>
    ELSE LET r == loop_j(Lc, Pc, n, k, i, 0)
         IN  loop_i(r[1], r[2], n, k, i + 1)

\* the loop over k that stops one vertex early, as range(n - 1) would
RECURSIVE loop_k_short(_, _, _, _)
loop_k_short(Lc, Pc, n, k) ==
    IF k >= n - 1
    THEN <<Lc, Pc>>
    ELSE LET r == loop_i(Lc, Pc, n, k, 0)
         IN  loop_k_short(r[1], r[2], n, k + 1)

\* lines 99-100: the loop over k, from k on
RECURSIVE loop_k(_, _, _, _)
loop_k(Lc, Pc, n, k) ==
    IF k >= n
    THEN <<Lc, Pc>>
    ELSE LET r == loop_i(Lc, Pc, n, k, 0)
         IN  loop_k(r[1], r[2], n, k + 1)

floyd_warshall ==
    /\ pc \in {"loaded", "closed"}
    /\ runs < MaxRuns
    /\ LET r == loop_k(L, P, num_vertices, 0)
       IN  /\ L' = r[1]
           /\ P' = r[2]
    /\ runs' = runs + 1
    /\ pc' = "closed"
    /\ ret' = NoRet
    /\ UNCHANGED <<num_vertices, initial_adj, todo, G, inRange, step, Lk, Pk>>

\* lines 100-114, one relaxation at a time: the step-th relaxation of the
\* call, of the pair (i, j) through k where step = k * n * n + i * n + j.
\* The call returns after the last one (at once when n = 0).
RelaxStep ==
    /\ pc \in {"loaded", "relaxing"}
    /\ runs = 0
    /\ LET n == num_vertices
           k == step \div (n * n)
           i == (step \div n) % n
           j == step % n
       IN  IF n = 0
           THEN /\ pc' = "closed"
                /\ runs' = 1
                /\ UNCHANGED <<L, P, step, Lk, Pk>>
           ELSE LET r == relax(L, P, k, i, j)
                IN  /\ L' = r[1]
                    /\ P' = r[2]
                    /\ Lk' = IF step % (n * n) = 0 THEN L ELSE Lk
                    /\ Pk' = IF step % (n * n) = 0 THEN P ELSE Pk
                    /\ step' = step + 1
                    /\ pc' = IF step + 1 = n * n * n THEN "closed" ELSE "relaxing"
                    /\ runs' = IF step + 1 = n * n * n THEN 1 ELSE 0
    /\ ret' = NoRet
    /\ UNCHANGED <<num_vertices, initial_adj, todo, G, inRange>>

\* ---- has_negative_cycle --------------------------------------------------
\* lines 169-172: some L[i][i] is negative
has_negative_cycle(Lc, n) == \E a \in 0..(n - 1) : Lc[a][a] < 0

HasNegativeCycle ==
    /\ pc = "closed"
    /\ ret' = [NoRet EXCEPT !.op = "has_negative_cycle",
                            !.flag = has_negative_cycle(L, num_vertices)]
    /\ UNCHANGED <<pc, num_vertices, L, P, initial_adj, todo, runs, G, inRange,
                   step, Lk, Pk>>

\* ---- get_negative_cycle_path --------------------------------------------
\* lines 188-192: the first vertex with a negative L[i][i], or -1
start_node(Lc, n) ==
    IF has_negative_cycle(Lc, n)
    THEN CHOOSE a \in 0..(n - 1) :
            /\ Lc[a][a] < 0
            /\ \A b \in 0..(a - 1) : ~(Lc[b][b] < 0)
    ELSE 0 - 1

\* lines 209-214: the loop that follows the first predecessor of curr
RECURSIVE walk_back(_, _, _, _, _, _)
walk_back(Pc, n, s, curr, path, steps) ==
    IF curr # s /\ steps < n * 2
    THEN IF At(Pc, s, curr, n) = <<>>
         THEN path
         ELSE LET nxt == At(Pc, s, curr, n)[1]
              IN  walk_back(Pc, n, s, nxt, Append(path, nxt), steps + 1)
    ELSE path

\* list.reverse()
Reverse(q) == [x \in 1..Len(q) |-> q[Len(q) + 1 - x]]

\* lines 188-219
get_negative_cycle_path(Lc, Pc, adj, n) ==
    LET s == start_node(Lc, n)
    IN  IF s = 0 - 1
        THEN <<>>
        ELSE IF adj[s][s] < 0
        THEN <<s, s>>
        ELSE IF Pc[s][s] = <<>>
        THEN <<>>
        ELSE LET path == Reverse(walk_back(Pc, n, s, Pc[s][s][1],
                                           <<Pc[s][s][1]>>, 0))
             IN  IF path # <<>> /\ path[1] # path[Len(path)]
                 THEN Append(path, path[1])
                 ELSE path

GetNegativeCyclePath ==
    /\ pc = "closed"
    /\ ret' = [NoRet EXCEPT !.op = "get_negative_cycle_path",
                            !.seq = get_negative_cycle_path(L, P, initial_adj,
                                                            num_vertices)]
    /\ UNCHANGED <<pc, num_vertices, L, P, initial_adj, todo, runs, G, inRange,
                   step, Lk, Pk>>

\* ---- get_all_shortest_paths ---------------------------------------------
\* A chain of recursive calls with the same start that is longer than the
\* number of values end can take (-n .. n-1) repeats a call, and so never
\* ends: Python raises RecursionError.
RecursionLimit(n) == n * 2 + 1

\* lines 239-242: each sub-path with end appended
Extend(sub_paths, end) == [x \in 1..Len(sub_paths) |-> Append(sub_paths[x], end)]

\* lines 230-243.  The result is [err, paths, depth]: err is TRUE when the
\* call raised RecursionError, paths is the returned list, depth the greatest
\* number of nested calls, this one included.
RECURSIVE get_all_shortest_paths(_, _, _, _, _, _)
RECURSIVE paths_of_preds(_, _, _, _, _, _, _)
get_all_shortest_paths(Lc, Pc, n, start, end, d) ==
    IF d > RecursionLimit(n)
    THEN [err |-> TRUE, paths |-> <<>>, depth |-> d]
    ELSE IF At(Lc, start, end, n) = INF
    THEN [err |-> FALSE, paths |-> <<>>, depth |-> d]
    ELSE IF start = end
    THEN [err |-> FALSE, paths |-> <<<<start>>>>, depth |-> d]
    ELSE paths_of_preds(Lc, Pc, n, start, end, d, At(Pc, start, end, n))

\* lines 235-242: the loop over the predecessors still to visit
paths_of_preds(Lc, Pc, n, start, end, d, preds) ==
    IF preds = <<>>
    THEN [err |-> FALSE, paths |-> <<>>, depth |-> d]
    ELSE IF Head(preds) = end
    THEN paths_of_preds(Lc, Pc, n, start, end, d, Tail(preds))
    ELSE LET sub == get_all_shortest_paths(Lc, Pc, n, start, Head(preds), d + 1)
         IN  IF sub.err
             THEN sub
             ELSE LET rest == paths_of_preds(Lc, Pc, n, start, end, d, Tail(preds))
                  IN  IF rest.err
                      THEN rest
                      ELSE [err |-> FALSE,
                            paths |-> Extend(sub.paths, end) \o rest.paths,
                            depth |-> Max(sub.depth, rest.depth)]

GetAllShortestPaths ==
    /\ pc = "closed"
    /\ \E start \in 0..(num_vertices - 1), end \in 0..(num_vertices - 1) :
        LET r == get_all_shortest_paths(L, P, num_vertices, start, end, 1)
        IN  ret' = [NoRet EXCEPT !.op = "get_all_shortest_paths",
                                 !.start = start, !.end = end,
                                 !.seq = r.paths, !.err = r.err,
                                 !.depth = r.depth]
    /\ UNCHANGED <<pc, num_vertices, L, P, initial_adj, todo, runs, G, inRange,
                   step, Lk, Pk>>

\* ---- the specifications -------------------------------------------------
\* the file describes a graph on 0..n-1
LoadEdge == LoadLine(GraphLines(num_vertices))

\* the file holds any line
LoadAnyLine == LoadLine(EdgeLines(num_vertices))

Next ==
    \/ LoadBegin
    \/ LoadEdge
    \/ floyd_warshall
    \/ HasNegativeCycle
    \/ GetNegativeCyclePath
    \/ GetAllShortestPaths

\* The engine on files that describe a graph
Spec == Init /\ [][Next]_vars

NextLoad ==
    \/ LoadBegin
    \/ LoadAnyLine

\* The loader on arbitrary files
SpecLoad == Init /\ [][NextLoad]_vars

NextSteps ==
    \/ LoadBegin
    \/ LoadEdge
    \/ RelaxStep

\* One call of floyd_warshall, relaxation by relaxation, on files that
\* describe a graph
SpecSteps == Init /\ [][NextSteps]_vars

\* ---- the input graph, for the statements below --------------------------
Vertices == 0..(num_vertices - 1)

\* the sequences of 1..n pairwise distinct vertices
SimpleSeqs ==
    {q \in UNION {[1..len -> Vertices] : len \in 1..num_vertices} :
        \A x, y \in 1..Len(q) : x # y => q[x] # q[y]}

\* every consecutive pair of q is an entry of W other than INF
IsWalk(W, q) == \A x \in 1..(Len(q) - 1) : W[q[x]][q[x + 1]] # INF

RECURSIVE Cost(_, _)
Cost(W, q) == IF Len(q) <= 1 THEN 0 ELSE W[q[1]][q[2]] + Cost(W, Tail(q))

\* the directed paths from a to b in the input graph
PathsG(a, b) ==
    {q \in SimpleSeqs : q[1] = a /\ q[Len(q)] = b /\ IsWalk(G, q)}

\* the least cost of a path from a to b, INF when there is none
Dist(a, b) ==
    IF PathsG(a, b) = {}
    THEN INF
    ELSE CHOOSE c \in {Cost(G, q) : q \in PathsG(a, b)} :
            \A q \in PathsG(a, b) : c <= Cost(G, q)

\* the input graph has a directed cycle (a self-loop included) of negative weight
NegCycleInG ==
    \E q \in SimpleSeqs :
        /\ IsWalk(G, q)
        /\ G[q[Len(q)]][q[1]] # INF
        /\ Cost(G, q) + G[q[Len(q)]][q[1]] < 0

\* ---- C1 -------------------------------------------------------------------
\* C1: on an input graph without a negative cycle, after load_from_file and
\* one call of floyd_warshall, L[i][j] is the least cost of a directed path
\* from i to j (0 on the diagonal, INF exactly when j is unreachable).
C1_ShortestDistances ==
    (pc = "closed" /\ runs = 1 /\ ~NegCycleInG)
        => \A a, b \in Vertices : L[a][b] = Dist(a, b)

\* ---- C2 -------------------------------------------------------------------
\* C2: after construction and one floyd_warshall pass, has_negative_cycle()
\* returns True exactly when the input graph has a directed cycle (a
\* self-loop included) of negative total weight.
C2_NegativeCycleDetected ==
    (ret.op = "has_negative_cycle" /\ runs = 1) => (ret.flag <=> NegCycleInG)

\* has_negative_cycle() returned True for a graph whose negative cycle is no self-loop
C2_Witness ==
    /\ ret.op = "has_negative_cycle"
    /\ runs = 1
    /\ ret.flag
    /\ \A a \in Vertices : ~(G[a][a] < 0)

C4_ReturnedPathsAreShortest ==
    (ret.op = "get_all_shortest_paths" /\ ~has_negative_cycle(L, num_vertices))
        => \A x \in 1..Len(ret.seq) :
              LET q == ret.seq[x]
              IN  /\ q[1] = ret.start
                  /\ q[Len(q)] = ret.end
                  /\ IsWalk(initial_adj, q)
                  /\ Cost(initial_adj, q) = L[ret.start][ret.end]

\* ---- C5 -------------------------------------------------------------------
\* C5: on a closed graph without negative cycle, get_all_shortest_paths
\* terminates and its recursion depth never exceeds n.
C5_EnumerationTerminates ==
    (ret.op = "get_all_shortest_paths" /\ ~has_negative_cycle(L, num_vertices))
        => (~ret.err /\ ret.depth <= num_vertices)

\* ---- C6 -------------------------------------------------------------------
\* C6: a non-empty sequence returned by get_negative_cycle_path is a closed
\* walk of the original adjacency matrix whose weights sum to less than 0.
C6_CycleIsNegativeClosedWalk ==
    (ret.op = "get_negative_cycle_path" /\ ret.seq # <<>>)
        => /\ ret.seq[1] = ret.seq[Len(ret.seq)]
           /\ IsWalk(initial_adj, ret.seq)
           /\ Cost(initial_adj, ret.seq) < 0

\* ---- C7 -------------------------------------------------------------------
\* the backward walk of get_negative_cycle_path starts (lines 199-207)
WalkStarts ==
    LET s == start_node(L, num_vertices)
    IN  s # 0 - 1 /\ ~(initial_adj[s][s] < 0) /\ P[s][s] # <<>>

\* the vertex the backward walk stops at
WalkEnd ==
    LET s == start_node(L, num_vertices)
        w == walk_back(P, num_vertices, s, P[s][s][1], <<P[s][s][1]>>, 0)
    IN  w[Len(w)]

\* C7: when the backward walk from the first vertex i with L[i][i] < 0 stops
\* without reaching i (an empty predecessor list, or 2n steps), the method
\* returns the empty sequence.
C7_FailedWalkReturnsEmpty ==
    (/\ ret.op = "get_negative_cycle_path"
     /\ WalkStarts
     /\ WalkEnd # start_node(L, num_vertices))
        => ret.seq = <<>>

\* ---- C8 -------------------------------------------------------------------
\* C8: load_from_file returns False whenever an edge line it reads names a
\* vertex index outside 0..n-1, negative indices included.
C8_OutOfRangeFailsLoad == pc = "loaded" => inRange

\* ---- C9 -------------------------------------------------------------------
\* C9: when load_from_file on a fresh Graph returns False, num_vertices is
\* still 0 and L, P and initial_adj are still empty.
C9_FailedLoadLeavesNothing ==
    pc = "failed"
        => (num_vertices = 0 /\ L = <<>> /\ P = <<>> /\ initial_adj = <<>>)

\* ---- C10 ------------------------------------------------------------------
\* C10 as stated: a second run of floyd_warshall leaves L and P as the first
\* run left them, for every constructed model.
C10_SecondRunChangesNothing ==
    [][(pc = "closed" /\ pc' = "closed" /\ runs' = runs + 1)
          => (L' = L /\ P' = P)]_vars

\* C10: on a constructed model for which has_negative_cycle() is False after
\* the first run, a second run of floyd_warshall leaves L and P (the order
\* within each predecessor list included) as the first run left them.
C10_SecondRunChangesNothingWithoutNegativeCycle ==
    [][(/\ pc = "closed"
        /\ pc' = "closed"
        /\ runs' = runs + 1
        /\ ~has_negative_cycle(L, num_vertices))
          => (L' = L /\ P' = P)]_vars

\* a second run has ended on a graph without negative cycle in which some
\* pair has two tying predecessors
C10_Witness ==
    /\ pc = "closed"
    /\ runs = 2
    /\ ~has_negative_cycle(L, num_vertices)
    /\ \E a, b \in Vertices : Len(P[a][b]) >= 2

\* ---- C11 ------------------------------------------------------------------
\* L[i][j] <= L[i][k] + L[k][j] wherever both terms on the right are finite
TriangleInequality ==
    \A a, b, c \in Vertices :
        (L[a][c] # INF /\ L[c][b] # INF) => L[a][b] <= L[a][c] + L[c][b]

\* C11 as stated: after floyd_warshall completes, L[i][j] <= L[i][k] + L[k][j]
\* for all i, j, k with finite L[i][k] and L[k][j], for every constructed model.
C11_TriangleInequality == pc = "closed" => TriangleInequality

\* C11: after floyd_warshall completes on a constructed model for which
\* has_negative_cycle() is then False, L[i][j] <= L[i][k] + L[k][j] for all
\* i, j, k with finite L[i][k] and L[k][j].
C11_TriangleInequalityWithoutNegativeCycle ==
    (pc = "closed" /\ ~has_negative_cycle(L, num_vertices)) => TriangleInequality

\* the closure found a route i -> k -> j that beats what the file gave for
\* (i, j), on a graph without negative cycle
C11_Witness ==
    /\ pc = "closed"
    /\ ~has_negative_cycle(L, num_vertices)
    /\ \E a, b, c \in Vertices :
        /\ a # b /\ b # c /\ a # c
        /\ L[a][c] # INF /\ L[c][b] # INF
        /\ L[a][b] = L[a][c] + L[c][b]
        /\ L[a][b] < initial_adj[a][b]

\* ---- C12 ------------------------------------------------------------------
\* one step of the closure: no relaxation step of floyd_warshall raises an entry of L, so a finite
\* entry never becomes infinite, and when the call returns every L[i][j] is at
\* most the L[i][j] that load_from_file built (which initial_adj still holds).
C12_StepNeverIncreases ==
    pc \in {"loaded", "relaxing"}
        => /\ \A a, b \in Vertices :
                /\ L'[a][b] <= L[a][b]
                /\ (L[a][b] # INF => L'[a][b] # INF)
           /\ (pc' = "closed"
                => \A a, b \in Vertices : L'[a][b] <= initial_adj[a][b])

\* C12: every relaxation step of floyd_warshall satisfies
\* C12_StepNeverIncreases: distances never increase, a finite one never
\* becomes infinite, and the final ones are at most the loaded ones.
C12_DistancesNeverIncrease == [][C12_StepNeverIncreases]_vars

\* some relaxation has lowered a finite entry and another has made an
\* infinite entry finite
C12_Witness ==
    /\ pc \in {"relaxing", "closed"}
    /\ \E a, b \in Vertices : initial_adj[a][b] # INF /\ L[a][b] < initial_adj[a][b]
    /\ \E a, b \in Vertices : initial_adj[a][b] = INF /\ L[a][b] # INF

step_k == step \div (num_vertices * num_vertices)

step_i == (step \div num_vertices) % num_vertices

step_j == step % num_vertices

StrictlyBetter(k, i, j) ==
    /\ L[i][k] # INF
    /\ L[k][j] # INF
    /\ L[i][k] + L[k][j] < L[i][j]

C14_StepResetsToPredecessorsOfKJ ==
    (/\ pc \in {"loaded", "relaxing"}
     /\ num_vertices > 0
     /\ StrictlyBetter(step_k, step_i, step_j))
        => /\ L'[step_i][step_j] = L[step_i][step_k] + L[step_k][step_j]
           /\ P'[step_i][step_j] = P[step_k][step_j]

\* C14: every relaxation step (k, i, j) with L[i][k], L[k][j] finite and
\* L[i][k] + L[k][j] < L[i][j] sets L[i][j] to that sum and leaves P[i][j]
\* equal, in order, to the list P[k][j] held before the step, i = k included.
C14_StrictStepCopiesPredecessors == [][C14_StepResetsToPredecessorsOfKJ]_vars

\* ---- C15 ------------------------------------------------------------------
\* the relaxation step (k, i, j) that RelaxStep executed last, as the number
\* of the pair (i, j) within the iteration k
last_k == (step - 1) \div (num_vertices * num_vertices)

last_pair == (step - 1) % (num_vertices * num_vertices)

\* the iteration k on the matrices Lc, Pc with the pairs taken in the reverse
\* of the sequential order, from pair number m down to 0
RECURSIVE loop_pairs_reversed(_, _, _, _, _)
loop_pairs_reversed(Lc, Pc, n, k, m) ==
    IF m < 0
    THEN <<Lc, Pc>>
    ELSE LET r == relax(Lc, Pc, k, m \div n, m % n)
         IN  IF r[1] = Lc /\ r[2] = Pc
             THEN loop_pairs_reversed(Lc, Pc, n, k, m - 1)
             ELSE loop_pairs_reversed(r[1], r[2], n, k, m - 1)

\* inside the iteration k that started from Lk, Pk: row k and column k of L
\* and row k of P are as at the start
ReadsUnchanged(k) ==
    \A a \in Vertices :
        /\ L[a][k] = Lk[a][k]
        /\ L[k][a] = Lk[k][a]
        /\ P[k][a] = Pk[k][a]

\* every pair processed so far holds what its relaxation computes from the
\* matrices of the start of the iteration alone, every other pair is untouched
PairsIndependent(k) ==
    \A i, j \in Vertices :
        IF i * num_vertices + j <= last_pair
        THEN LET r == relax(Lk, Pk, k, i, j)
             IN  L[i][j] = r[1][i][j] /\ P[i][j] = r[2][i][j]
        ELSE L[i][j] = Lk[i][j] /\ P[i][j] = Pk[i][j]

\* at the end of the iteration, the reverse order gives the same matrices
SameAsReversed(k) ==
    last_pair = num_vertices * num_vertices - 1
        => <<L, P>> = loop_pairs_reversed(Lk, Pk, num_vertices, k, last_pair)

InIteration == pc \in {"relaxing", "closed"} /\ num_vertices > 0 /\ step > 0

\* C15: within one iteration k of floyd_warshall the values that relaxations
\* read, L[i][k], L[k][j] and P[k][j], are never changed by a relaxation of
\* that iteration, so the pairs (i, j) give the same L and P in any order.
C15_IterationReadsAreReadOnly ==
    InIteration
        => /\ ReadsUnchanged(last_k)
           /\ PairsIndependent(last_k)
           /\ SameAsReversed(last_k)

\* C15 for the iterations k that start with L[k][k] >= 0: what relaxations
\* read is never changed within the iteration and the order of the pairs
\* does not matter.
C15_IterationReadsAreReadOnlyWithoutNegativeDiagonal ==
    (InIteration /\ Lk[last_k][last_k] >= 0)
        => /\ ReadsUnchanged(last_k)
           /\ PairsIndependent(last_k)
           /\ SameAsReversed(last_k)

\* the end of an iteration k > 0 that started with L[k][k] >= 0 and changed
\* both a distance and a predecessor list
C15_Witness ==
    /\ InIteration
    /\ last_k > 0
    /\ last_pair = num_vertices * num_vertices - 1
    /\ Lk[last_k][last_k] >= 0
    /\ \E i, j \in Vertices : L[i][j] < Lk[i][j]
    /\ \E i, j \in Vertices : L[i][j] = Lk[i][j] /\ P[i][j] # Pk[i][j]
====
